---- MODULE Spec2Model ----
(***************************************************************************)
(* Model of wifi-monitor.py: class WiFiMonitor and its run() loop.         *)
(*                                                                         *)
(* Time is a discrete wall clock `now` (datetime.now()) that the           *)
(* environment advances between any two statements of the program.  The    *)
(* program itself is one sequential flow of control whose position is pc.  *)
(* Speeds are rationals; a mean is kept as a reduced fraction.             *)
(* A local of run() that is not read again before it is next assigned      *)
(* (current_time after the speed test, disconnect_time after the event is  *)
(* appended, download_speed/upload_speed after the sleep) is set back to   *)
(* None at that point; the clock is taken to be non-decreasing.            *)
(***************************************************************************)
EXTENDS Integers, Sequences, FiniteSets, TLC

\* ---- bounds of the model -------------------------------------------------
\* clock ticks per wall-clock hour
TicksPerHour == 1
\* hours per day in the model (datetime.hour wraps after this many hours)
HoursPerDay == 2
\* longest run duration, in ticks
MaxDuration == 2
\* cap on the length of the sample log
MaxSamples == 3
\* cap on the length of the disconnection log
MaxDisc == 2

\* the clock stops advancing here (the run is over by then)
MaxTime == MaxDuration + 1

\* ---- values ---------------------------------------------------------------
\* Python None, for timestamps and for the (None, None) probe failure
None == -1
\* float('inf'): above every finite speed
Inf == 1000000

\* (download, upload) pairs in Mbps a successful speed test may return
ProbeResults == {<<50, 10>>, <<80, 15>>, <<0, 5>>}

\* datetime.hour of a clock reading
Hour(t) == (t \div TicksPerHour) % HoursPerDay

Hours == 0 .. (HoursPerDay - 1)

\* ---- rational arithmetic ---------------------------------------------------
RECURSIVE GCD(_, _)
GCD(a, b) == IF b = 0 THEN a ELSE GCD(b, a % b)

\* the rational n/d (d > 0, n >= 0) in lowest terms
Frac(n, d) == LET g == GCD(n, d) IN [num |-> n \div g, den |-> d \div g]

\* float NaN
NaN == [num |-> 0, den |-> 0]

FracLess(a, b) == a.num * b.den < b.num * a.den

RECURSIVE SumSeq(_)
SumSeq(s) == IF s = <<>> THEN 0 ELSE Head(s) + SumSeq(Tail(s))

\* statistics.mean of a non-empty list
mean(s) == Frac(SumSeq(s), Len(s))

SelectHour(s, h) == SelectSeq(s, LAMBDA x : x.hour = h)

Downloads(s) == [i \in 1 .. Len(s) |-> s[i].download]
Uploads(s) == [i \in 1 .. Len(s) |-> s[i].upload]

VARIABLES
    now,              \* the wall clock
    pc,               \* position of the program in run()
    speeds,           \* self.speeds
    disconnections,   \* self.disconnections
    hourly_averages,  \* self.hourly_averages
    current_hour,     \* self.current_hour
    speed_extremes,   \* self.speed_extremes
    end_time,         \* run(): end_time
    current_time,     \* run(): current_time
    disconnect_time,  \* run(): disconnect_time
    download_speed,   \* run(): download_speed
    upload_speed,     \* run(): upload_speed
    reports,          \* the reports written by generate_report
    failed_checks,    \* history: failed connectivity checks of the main loop
    probe_ok,         \* history: some speed test has succeeded
    bucket_start      \* history: length of the log when the tracked hour last advanced

vars == <<now, pc, speeds, disconnections, hourly_averages, current_hour,
          speed_extremes, end_time, current_time, disconnect_time,
          download_speed, upload_speed, reports, failed_checks, probe_ok,
          bucket_start>>

data == <<speeds, disconnections, hourly_averages, current_hour, speed_extremes>>
locals == <<end_time, current_time, disconnect_time, download_speed, upload_speed>>
hist == <<failed_checks, probe_ok, bucket_start>>

\* ---- WiFiMonitor methods as operators --------------------------------------
\* variant: an equal value replaces the extreme
update_speed_extremes_on_tie(ext, d, u, t) ==
    [max_download |-> IF d >= ext.max_download.speed
                      THEN [speed |-> d, timestamp |-> t] ELSE ext.max_download,
     min_download |-> IF d <= ext.min_download.speed
                      THEN [speed |-> d, timestamp |-> t] ELSE ext.min_download,
     max_upload   |-> IF u >= ext.max_upload.speed
                      THEN [speed |-> u, timestamp |-> t] ELSE ext.max_upload,
     min_upload   |-> IF u <= ext.min_upload.speed
                      THEN [speed |-> u, timestamp |-> t] ELSE ext.min_upload]

\* update_speed_extremes(download_speed, upload_speed) at clock reading t
update_speed_extremes(ext, d, u, t) ==
    [max_download |-> IF d > ext.max_download.speed
                      THEN [speed |-> d, timestamp |-> t] ELSE ext.max_download,
     min_download |-> IF d < ext.min_download.speed
                      THEN [speed |-> d, timestamp |-> t] ELSE ext.min_download,
     max_upload   |-> IF u > ext.max_upload.speed
                      THEN [speed |-> u, timestamp |-> t] ELSE ext.max_upload,
     min_upload   |-> IF u < ext.min_upload.speed
                      THEN [speed |-> u, timestamp |-> t] ELSE ext.min_upload]

\* variant: the averages are taken over the whole log, not over the hour's samples
calculate_hourly_average_unfiltered(avgs, s, h) ==
    LET entry == [download |-> mean(Downloads(s)),
                  upload   |-> mean(Uploads(s)),
                  samples  |-> Len(s)]
    IN  IF s = <<>> THEN avgs
        ELSE IF SelectHour(s, h) = <<>> THEN avgs
        ELSE [k \in DOMAIN avgs \cup {h} |-> IF k = h THEN entry ELSE avgs[k]]

\* variant: no early return for an hour without samples
calculate_hourly_average_unguarded(avgs, s, h) ==
    LET hour_speeds == SelectHour(s, h)
        entry == IF hour_speeds = <<>>
                 THEN [download |-> NaN, upload |-> NaN, samples |-> 0]
                 ELSE [download |-> mean(Downloads(hour_speeds)),
                       upload   |-> mean(Uploads(hour_speeds)),
                       samples  |-> Len(hour_speeds)]
    IN  IF s = <<>> THEN avgs
        ELSE [k \in DOMAIN avgs \cup {h} |-> IF k = h THEN entry ELSE avgs[k]]

\* variant: only the samples of the latest day on which the hour occurred
calculate_hourly_average_latest_day(avgs, s, h) ==
    LET of_hour == SelectHour(s, h)
        latest == of_hour[Len(of_hour)].timestamp \div (TicksPerHour * HoursPerDay)
        hour_speeds == SelectSeq(of_hour,
            LAMBDA x : x.timestamp \div (TicksPerHour * HoursPerDay) = latest)
        entry == [download |-> mean(Downloads(hour_speeds)),
                  upload   |-> mean(Uploads(hour_speeds)),
                  samples  |-> Len(hour_speeds)]
    IN  IF s = <<>> THEN avgs
        ELSE IF of_hour = <<>> THEN avgs
        ELSE [k \in DOMAIN avgs \cup {h} |-> IF k = h THEN entry ELSE avgs[k]]

\* calculate_hourly_average(): the new value of self.hourly_averages
calculate_hourly_average(avgs, s, h) ==
    LET hour_speeds == SelectHour(s, h)
        entry == [download |-> mean(Downloads(hour_speeds)),
                  upload   |-> mean(Uploads(hour_speeds)),
                  samples  |-> Len(hour_speeds)]
    IN  IF s = <<>> THEN avgs
        ELSE IF hour_speeds = <<>> THEN avgs
        ELSE [k \in DOMAIN avgs \cup {h} |-> IF k = h THEN entry ELSE avgs[k]]

\* variant: the first event is left out of the sum
calculate_total_downtime_skip_first(ds) ==
    LET RECURSIVE total(_)
        total(d) == IF d = <<>> THEN 0 ELSE Head(d).duration + total(Tail(d))
    IN  IF ds = <<>> THEN 0 ELSE total(Tail(ds))

\* calculate_total_downtime()
RECURSIVE calculate_total_downtime(_)
calculate_total_downtime(ds) ==
    IF ds = <<>> THEN 0
    ELSE Head(ds).duration + calculate_total_downtime(Tail(ds))

\* Python truthiness of a speed value: None and 0 are falsy
Truthy(x) == x # None /\ x # 0

\* ---- initial state: after WiFiMonitor() ------------------------------------
Init ==
    /\ now = 0
    /\ pc = "start"
    /\ speeds = <<>>
    /\ disconnections = <<>>
    /\ hourly_averages = <<>>
    /\ current_hour = Hour(0)
    /\ speed_extremes =
         [max_download |-> [speed |-> 0, timestamp |-> None],
          min_download |-> [speed |-> Inf, timestamp |-> None],
          max_upload   |-> [speed |-> 0, timestamp |-> None],
          min_upload   |-> [speed |-> Inf, timestamp |-> None]]
    /\ end_time = None
    /\ current_time = None
    /\ disconnect_time = None
    /\ download_speed = None
    /\ upload_speed = None
    /\ reports = <<>>
    /\ failed_checks = 0
    /\ probe_ok = FALSE
    /\ bucket_start = 0

\* ---- environment -----------------------------------------------------------
\* the wall clock advances
Tick ==
    /\ pc \notin {"start", "done"}
    /\ now < MaxTime
    /\ now' = now + 1
    /\ UNCHANGED <<pc, data, locals, reports, hist>>

\* ---- analyze_patterns ------------------------------------------------------
\* the group keys of df.groupby(hour), in ascending order
GroupKeys(s) ==
    SelectSeq([i \in 1 .. HoursPerDay |-> i - 1],
              LAMBDA h : \E i \in 1 .. Len(s) : Hour(s[i].timestamp) = h)

GroupOf(s, h) == SelectSeq(s, LAMBDA x : Hour(x.timestamp) = h)

RECURSIVE SumSq(_)
SumSq(s) == IF s = <<>> THEN 0 ELSE Head(s) * Head(s) + SumSq(Tail(s))

\* pandas 'std' of a group (ddof = 1): NaN for a single value, otherwise the
\* square root of the returned fraction (the sample variance)
std(s) ==
    LET n == Len(s)
    IN  IF n < 2 THEN NaN
        ELSE Frac(n * SumSq(s) - SumSeq(s) * SumSeq(s), n * (n - 1))

\* variant: among equal largest values the last key wins
idxmax_last_wins(keys, f) ==
    LET RECURSIVE best(_)
        best(ks) ==
            IF Len(ks) = 1 THEN Head(ks)
            ELSE LET r == best(Tail(ks))
                 IN  IF FracLess(f[r], f[Head(ks)]) THEN Head(ks) ELSE r
    IN  best(keys)

\* Series.idxmax(): the first key that carries the largest value
RECURSIVE idxmax(_, _)
idxmax(keys, f) ==
    IF Len(keys) = 1 THEN Head(keys)
    ELSE LET r == idxmax(Tail(keys), f)
         IN  IF FracLess(f[Head(keys)], f[r]) THEN r ELSE Head(keys)

\* Series.idxmin(): the first key that carries the smallest value
RECURSIVE idxmin(_, _)
idxmin(keys, f) ==
    IF Len(keys) = 1 THEN Head(keys)
    ELSE LET r == idxmin(Tail(keys), f)
         IN  IF FracLess(f[r], f[Head(keys)]) THEN r ELSE Head(keys)

\* Series.mean() of a column of standard deviations (skipna): the sum of the
\* square roots of `roots` divided by n; NaN when n = 0
SeriesMean(col) ==
    LET r == SelectSeq(col, LAMBDA v : v # NaN)
    IN  [roots |-> r, n |-> Len(r)]

\* analyze_patterns(): <<>> stands for None, <<p>> for the dict p
analyze_patterns(s) ==
    IF s = <<>> THEN <<>>
    ELSE
      LET keys == GroupKeys(s)
          dmean == [h \in Hours |-> IF GroupOf(s, h) = <<>> THEN NaN
                                   ELSE mean(Downloads(GroupOf(s, h)))]
          umean == [h \in Hours |-> IF GroupOf(s, h) = <<>> THEN NaN
                                   ELSE mean(Uploads(GroupOf(s, h)))]
          dstd == [i \in 1 .. Len(keys) |-> std(Downloads(GroupOf(s, keys[i])))]
          ustd == [i \in 1 .. Len(keys) |-> std(Uploads(GroupOf(s, keys[i])))]
      IN << [peak_hours |-> [download |-> idxmax(keys, dmean),
                             upload   |-> idxmax(keys, umean)],
             low_hours  |-> [download |-> idxmin(keys, dmean),
                             upload   |-> idxmin(keys, umean)],
             stability  |-> [download |-> SeriesMean(dstd),
                             upload   |-> SeriesMean(ustd)]] >>

\* generate_report(): the content of the report
generate_report(s, ds, ext, avgs) ==
    [patterns |-> analyze_patterns(s),
     total_downtime |-> calculate_total_downtime(ds),
     speed_extremes |-> ext,
     disconnections |-> ds,
     hourly_averages |-> avgs]

\* ---- run() -----------------------------------------------------------------
\* lines 224-225: start_time, end_time
run_start ==
    /\ pc = "start"
    /\ \E d \in 1 .. MaxDuration : end_time' = now + d
    /\ pc' = "loop"
    /\ UNCHANGED <<now, data, current_time, disconnect_time, download_speed,
                   upload_speed, reports, hist>>

\* line 229: while datetime.now() < end_time
while_enter ==
    /\ pc = "loop"
    /\ now < end_time
    /\ pc' = "top"
    /\ UNCHANGED <<now, data, locals, reports, hist>>

while_exit ==
    /\ pc = "loop"
    /\ ~(now < end_time)
    /\ pc' = "final"
    /\ UNCHANGED <<now, data, locals, reports, hist>>

\* variant: the tracked hour advances without the previous hour being finalized
cycle_start_no_finalize ==
    /\ pc = "top"
    /\ current_time' = now
    /\ IF Hour(now) # current_hour
       THEN /\ current_hour' = Hour(now)
            /\ bucket_start' = Len(speeds)
       ELSE UNCHANGED <<current_hour, bucket_start>>
    /\ pc' = "check"
    /\ UNCHANGED <<now, speeds, disconnections, hourly_averages, speed_extremes,
                   end_time, disconnect_time, download_speed, upload_speed,
                   reports, failed_checks, probe_ok>>

\* lines 230-235: read the clock, finalize the previous hour on a change
cycle_start ==
    /\ pc = "top"
    /\ current_time' = now
    /\ IF Hour(now) # current_hour
       THEN /\ hourly_averages' =
                 calculate_hourly_average(hourly_averages, speeds, current_hour)
            /\ current_hour' = Hour(now)
            /\ bucket_start' = Len(speeds)
       ELSE UNCHANGED <<hourly_averages, current_hour, bucket_start>>
    /\ pc' = "check"
    /\ UNCHANGED <<now, speeds, disconnections, speed_extremes, end_time,
                   disconnect_time, download_speed, upload_speed, reports,
                   failed_checks, probe_ok>>

\* line 238: check_connection() returns True
check_connection_ok ==
    /\ pc = "check"
    /\ pc' = "measure"
    /\ UNCHANGED <<now, data, locals, reports, hist>>

\* lines 238-241: check_connection() returns False; track_disconnection starts
check_connection_lost ==
    /\ pc = "check"
    /\ Len(disconnections) < MaxDisc
    /\ disconnect_time' = now
    /\ current_time' = None
    /\ failed_checks' = failed_checks + 1
    /\ pc' = "wait"
    /\ UNCHANGED <<now, data, end_time, download_speed, upload_speed,
                   reports, probe_ok, bucket_start>>

\* variant: the reconnection wait gives up once the run's duration is over
track_still_down_until_deadline ==
    /\ pc = "wait"
    /\ pc' = IF now >= end_time THEN "final" ELSE "wait_sleep"
    /\ UNCHANGED <<now, data, locals, reports, hist>>

\* lines 78-79: still unreachable, sleep 5 seconds
track_still_down ==
    /\ pc = "wait"
    /\ pc' = "wait_sleep"
    /\ UNCHANGED <<now, data, locals, reports, hist>>

track_wake ==
    /\ pc = "wait_sleep"
    /\ pc' = "wait"
    /\ UNCHANGED <<now, data, locals, reports, hist>>

\* variant: the start of the outage is read when it ends
DisconnectionEvent_late_start(start, t) ==
    [start |-> t, end |-> t, duration |-> t - start]

\* the event track_disconnection(start_time) appends at clock reading t
DisconnectionEvent(start, t) ==
    [start |-> start, end |-> t, duration |-> t - start]

\* variant: no `continue` after track_disconnection returns
track_restored_no_continue ==
    /\ pc = "wait"
    /\ disconnections' =
         Append(disconnections, DisconnectionEvent(disconnect_time, now))
    /\ disconnect_time' = None
    /\ pc' = "measure"
    /\ UNCHANGED <<now, speeds, hourly_averages, current_hour, speed_extremes,
                   end_time, current_time, download_speed, upload_speed,
                   reports, hist>>

\* variant: the new event is put at the front of the list
track_restored_prepend ==
    /\ pc = "wait"
    /\ disconnections' =
         <<DisconnectionEvent(disconnect_time, now)>> \o disconnections
    /\ disconnect_time' = None
    /\ pc' = "loop"
    /\ UNCHANGED <<now, speeds, hourly_averages, current_hour, speed_extremes,
                   end_time, current_time, download_speed, upload_speed,
                   reports, hist>>

\* lines 78-87 and 242: reachable again, record the event, continue
track_restored ==
    /\ pc = "wait"
    /\ disconnections' =
         Append(disconnections, DisconnectionEvent(disconnect_time, now))
    /\ disconnect_time' = None
    /\ pc' = "loop"
    /\ UNCHANGED <<now, speeds, hourly_averages, current_hour, speed_extremes,
                   end_time, current_time, download_speed, upload_speed,
                   reports, hist>>

\* variant: a failed speed test is recorded as a measurement of 0 Mbps
measure_speed_failed_as_zero ==
    /\ pc = "measure"
    /\ speed_extremes' = update_speed_extremes(speed_extremes, 0, 0, now)
    /\ download_speed' = None
    /\ upload_speed' = None
    /\ current_time' = None
    /\ pc' = "sleep"
    /\ UNCHANGED <<now, speeds, disconnections, hourly_averages, current_hour,
                   end_time, disconnect_time, reports, hist>>

\* variant: a failed speed test is recorded as a disconnection
measure_speed_failed_as_disconnection ==
    /\ pc = "measure"
    /\ Len(disconnections) < MaxDisc
    /\ disconnections' = Append(disconnections, DisconnectionEvent(now, now))
    /\ download_speed' = None
    /\ upload_speed' = None
    /\ current_time' = None
    /\ pc' = "loop"
    /\ UNCHANGED <<now, speeds, hourly_averages, current_hour, speed_extremes,
                   end_time, disconnect_time, reports, hist>>

\* lines 245-253 (measure_speed raises inside its try): no sample
measure_speed_failed ==
    /\ pc = "measure"
    /\ download_speed' = None
    /\ upload_speed' = None
    /\ current_time' = None
    /\ pc' = "sleep"
    /\ UNCHANGED <<now, data, end_time, disconnect_time, reports, hist>>

\* lines 247-252: the log after `if download_speed and upload_speed: append`
AppendSample(s, t, d, u) ==
    IF Truthy(d) /\ Truthy(u)
    THEN Append(s, [timestamp |-> t, hour |-> Hour(t),
                    download |-> d, upload |-> u])
    ELSE s

\* lines 245-253: measure_speed succeeds with (d, u)
measure_speed_ok ==
    /\ pc = "measure"
    /\ \E r \in ProbeResults :
         /\ (Truthy(r[1]) /\ Truthy(r[2])) => Len(speeds) < MaxSamples
         /\ speed_extremes' = update_speed_extremes(speed_extremes, r[1], r[2], now)
         /\ download_speed' = r[1]
         /\ upload_speed' = r[2]
         /\ speeds' = AppendSample(speeds, current_time, r[1], r[2])
    /\ current_time' = None
    /\ probe_ok' = TRUE
    /\ pc' = "sleep"
    /\ UNCHANGED <<now, disconnections, hourly_averages, current_hour, end_time,
                   disconnect_time, reports, failed_checks, bucket_start>>

\* line 256: time.sleep(60)
sleep_done ==
    /\ pc = "sleep"
    /\ download_speed' = None
    /\ upload_speed' = None
    /\ pc' = "loop"
    /\ UNCHANGED <<now, data, end_time, current_time, disconnect_time,
                   reports, hist>>

\* variant: the run ends without generating the report
run_finish_no_report ==
    /\ pc = "final"
    /\ hourly_averages' =
         calculate_hourly_average(hourly_averages, speeds, current_hour)
    /\ pc' = "done"
    /\ UNCHANGED <<now, speeds, disconnections, current_hour, speed_extremes,
                   locals, reports, hist>>

\* lines 259-260: finalize the last hour, generate the report
run_finish ==
    /\ pc = "final"
    /\ hourly_averages' =
         calculate_hourly_average(hourly_averages, speeds, current_hour)
    /\ reports' = Append(reports,
         generate_report(speeds, disconnections, speed_extremes, hourly_averages'))
    /\ pc' = "done"
    /\ UNCHANGED <<now, speeds, disconnections, current_hour, speed_extremes,
                   locals, hist>>

Next ==
    \/ Tick
    \/ run_start
    \/ while_enter
    \/ while_exit
    \/ cycle_start
    \/ check_connection_ok
    \/ check_connection_lost
    \/ track_still_down
    \/ track_wake
    \/ track_restored
    \/ measure_speed_failed
    \/ measure_speed_ok
    \/ sleep_done
    \/ run_finish

Spec == Init /\ [][Next]_vars

TypeOK ==
    /\ now \in 0 .. MaxTime
    /\ Len(speeds) <= MaxSamples
    /\ Len(disconnections) <= MaxDisc
    /\ Len(reports) <= 1

\* ---- properties ------------------------------------------------------------
\* the report the run has produced
Report == reports[1]

InitialExtremes ==
    [max_download |-> [speed |-> 0, timestamp |-> None],
     min_download |-> [speed |-> Inf, timestamp |-> None],
     max_upload   |-> [speed |-> 0, timestamp |-> None],
     min_upload   |-> [speed |-> Inf, timestamp |-> None]]

\* positions of the log's samples taken in hour h
SamplesAt(h) == {i \in 1 .. Len(speeds) : speeds[i].hour = h}

RECURSIVE SumOver(_, _)
SumOver(f, S) ==
    IF S = {} THEN 0
    ELSE LET i == CHOOSE j \in S : TRUE IN f[i] + SumOver(f, S \ {i})

\* the fraction m is the arithmetic mean of f over the non-empty index set S
IsMeanOf(m, f, S) ==
    m.den > 0 /\ m.num * Cardinality(S) = m.den * SumOver(f, S)

\* C1: max_download (max_upload) is >= the download (upload) of every logged
\* sample and, once it differs from 0, is the value of a logged sample;
\* min_download (min_upload) is <= every logged value and, once it differs
\* from +infinity, is the value of a logged sample.
C1_ExtremesFromLog ==
    LET e == speed_extremes
        idx == 1 .. Len(speeds)
    IN  /\ \A i \in idx : /\ e.max_download.speed >= speeds[i].download
                          /\ e.min_download.speed <= speeds[i].download
                          /\ e.max_upload.speed >= speeds[i].upload
                          /\ e.min_upload.speed <= speeds[i].upload
        /\ e.max_download.speed # 0 =>
             \E i \in idx : speeds[i].download = e.max_download.speed
        /\ e.min_download.speed # Inf =>
             \E i \in idx : speeds[i].download = e.min_download.speed
        /\ e.max_upload.speed # 0 =>
             \E i \in idx : speeds[i].upload = e.max_upload.speed
        /\ e.min_upload.speed # Inf =>
             \E i \in idx : speeds[i].upload = e.min_upload.speed

\* C2: at report generation hourly_averages has an entry for hour h exactly
\* when the log holds a sample of hour h; the entry's count is the number of
\* those samples and its means are their arithmetic means.
C2_HourlyAveragesMatchLog ==
    pc = "done" =>
      \A h \in Hours :
        /\ h \in DOMAIN Report.hourly_averages <=> SamplesAt(h) # {}
        /\ h \in DOMAIN Report.hourly_averages =>
             LET a == Report.hourly_averages[h]
             IN  /\ a.samples = Cardinality(SamplesAt(h))
                 /\ IsMeanOf(a.download, Downloads(speeds), SamplesAt(h))
                 /\ IsMeanOf(a.upload, Uploads(speeds), SamplesAt(h))

\* one hour with two samples, another hour with one, both averaged
C2_Witness ==
    /\ pc = "done"
    /\ \E h, k \in DOMAIN Report.hourly_averages :
         /\ Report.hourly_averages[h].samples = 2
         /\ Report.hourly_averages[h].download = [num |-> 65, den |-> 1]
         /\ Report.hourly_averages[h].upload = [num |-> 25, den |-> 2]
         /\ Report.hourly_averages[k].samples = 1
         /\ Report.hourly_averages[k].download.den = 1
         /\ Report.hourly_averages[k].download.num \in {50, 80}

\* C3: a step taken while the log holds no sample of the tracked hour creates
\* no entry in hourly_averages, and every entry present has count >= 1.
C3_NoEntryForEmptyHour ==
    [][ /\ SamplesAt(current_hour) = {} =>
             DOMAIN hourly_averages' = DOMAIN hourly_averages
        /\ \A h \in DOMAIN hourly_averages' : hourly_averages'[h].samples >= 1
      ]_vars

\* the run finalized an hour without samples although the log is not empty
C3_Witness ==
    /\ pc = "done"
    /\ speeds # <<>>
    /\ SamplesAt(current_hour) = {}
    /\ current_hour \notin DOMAIN hourly_averages

\* C4: every failed connectivity check of the main loop yields exactly one
\* event, appended when connectivity is seen restored, with start = the time
\* the loss was detected, end = the time of restoration, duration = end -
\* start and end >= start; nothing is appended while the link is down or in a
\* cycle whose check succeeded.
C4_OneEventPerLoss ==
    [][ /\ (pc = "check" /\ pc' = "wait") => disconnect_time' = now
        /\ disconnections' # disconnections =>
             /\ pc = "wait" /\ pc' = "loop"
             /\ Len(disconnections') = Len(disconnections) + 1
             /\ SubSeq(disconnections', 1, Len(disconnections)) = disconnections
             /\ LET e == disconnections'[Len(disconnections')]
                IN  /\ e.start = disconnect_time
                    /\ e.end = now
                    /\ e.duration = e.end - e.start
                    /\ e.end >= e.start
        /\ Len(disconnections') =
             failed_checks' - (IF pc' \in {"wait", "wait_sleep"} THEN 1 ELSE 0)
      ]_vars

\* an outage that lasted some time has been recorded
C4_Witness ==
    /\ Len(disconnections) = 1
    /\ disconnections[1].end > disconnections[1].start
    /\ disconnections[1].duration = disconnections[1].end - disconnections[1].start
    /\ failed_checks = 1

\* C5: the reported total downtime is the sum of end - start over the
\* recorded events, zero when there is none.
C5_TotalDowntime ==
    pc = "done" =>
      LET d == Report.disconnections
      IN  /\ d = disconnections
          /\ Report.total_downtime =
               SumOver([i \in 1 .. Len(d) |-> d[i].end - d[i].start], 1 .. Len(d))
          /\ d = <<>> => Report.total_downtime = 0

C5_Witness ==
    /\ pc = "done"
    /\ disconnections # <<>>
    /\ Report.total_downtime > 0

\* C6: when every speed test of the run failed and connectivity was always
\* there, the run ends with an empty log, no hourly average, no pattern
\* summary, the initial extremes, no disconnection, and one report.
C6_AllProbesFail ==
    (pc = "done" /\ ~probe_ok /\ failed_checks = 0) =>
      /\ speeds = <<>>
      /\ DOMAIN hourly_averages = {}
      /\ speed_extremes = InitialExtremes
      /\ disconnections = <<>>
      /\ Len(reports) = 1
      /\ Report.patterns = <<>>
      /\ DOMAIN Report.hourly_averages = {}
      /\ Report.speed_extremes = InitialExtremes
      /\ Report.disconnections = <<>>

\* such a run with at least one cycle: the tracked hour has advanced, which
\* only a cycle does, and each cycle of this run made a speed test that failed
C6_Witness ==
    /\ pc = "done"
    /\ ~probe_ok
    /\ failed_checks = 0
    /\ current_hour # Hour(0)
    /\ Len(reports) = 1

\* ---- the run under fair scheduling -----------------------------------------
\* the steps of the program itself
Step ==
    \/ run_start
    \/ while_enter
    \/ while_exit
    \/ cycle_start
    \/ check_connection_ok
    \/ check_connection_lost
    \/ track_still_down
    \/ track_wake
    \/ track_restored
    \/ measure_speed_failed
    \/ measure_speed_ok
    \/ sleep_done
    \/ run_finish

\* the program keeps running, the clock keeps advancing, and an outage ends
LiveSpec ==
    /\ Spec
    /\ WF_vars(Step)
    /\ WF_vars(Tick)
    /\ SF_vars(track_restored)

\* C7: the run eventually leaves the loop, which it does only once the
\* duration has elapsed, finalizes the last hour and emits the report exactly
\* once; it never ends without a report.
C7_RunCompletes ==
    /\ <>[](pc = "done" /\ Len(reports) = 1)
    /\ [](pc = "final" => now >= end_time)
    /\ [](pc # "done" => reports = <<>>)
    /\ [](pc = "done" =>
            /\ Len(reports) = 1
            /\ Report.hourly_averages =
                 calculate_hourly_average(hourly_averages, speeds, current_hour))

\* a completed run that saw an outage and recorded no sample
C7_Witness ==
    /\ pc = "done"
    /\ Len(reports) = 1
    /\ failed_checks >= 1
    /\ speeds = <<>>
    /\ now >= end_time

\* the hours of the day that the log's samples cover
RepresentedHours == {speeds[i].hour : i \in 1 .. Len(speeds)}

\* the mean of standard deviations m is zero
IsZeroMean(m) == m.n >= 1 /\ \A i \in 1 .. Len(m.roots) : m.roots[i].num = 0

\* C8: on a log of one sample analyze_patterns returns that sample's hour as
\* peak and low hour of both directions with stability 0 for both; in general
\* the stability is the mean of the per-hour deviations over all represented
\* hours, a single-sample hour counting as 0.
C8_SingleSampleStability ==
    (pc = "done" /\ speeds # <<>>) =>
      LET p == Report.patterns[1]
      IN  /\ Len(speeds) = 1 =>
               /\ p.peak_hours = [download |-> speeds[1].hour, upload |-> speeds[1].hour]
               /\ p.low_hours = [download |-> speeds[1].hour, upload |-> speeds[1].hour]
               /\ IsZeroMean(p.stability.download)
               /\ IsZeroMean(p.stability.upload)
          /\ \/ p.stability.download.n = Cardinality(RepresentedHours)
             \/ IsZeroMean(p.stability.download)
          /\ \/ p.stability.upload.n = Cardinality(RepresentedHours)
             \/ IsZeroMean(p.stability.upload)

\* C9: a successful speed test in a cycle appends exactly one sample with the
\* returned values and the cycle's hour, and the extremes change only in a
\* cycle that appends a sample.
C9_SampleWithEveryUpdate ==
    [][ (pc = "measure" /\ pc' = "sleep") =>
          /\ download_speed' # None =>
               speeds' = Append(speeds, [timestamp |-> current_time,
                                         hour |-> current_hour,
                                         download |-> download_speed',
                                         upload |-> upload_speed'])
          /\ speed_extremes' # speed_extremes =>
               Len(speeds') = Len(speeds) + 1
      ]_vars

\* C10: a failed speed test in a cycle whose connectivity check succeeded
\* appends no event and no sample, leaves extremes, log, hourly averages and
\* tracked hour as they are, and the loop goes on to the poll-interval sleep.
C10_ProbeFailureSkipsSample ==
    [][ (pc = "measure" /\ pc' # "measure" /\ download_speed' = None) =>
          /\ upload_speed' = None
          /\ UNCHANGED <<speeds, disconnections, hourly_averages, current_hour,
                         speed_extremes, failed_checks>>
          /\ pc' = "sleep"
      ]_vars

\* a speed test has failed after earlier samples and extremes were recorded
C10_Witness ==
    /\ pc = "sleep"
    /\ download_speed = None /\ upload_speed = None
    /\ speeds # <<>>
    /\ speed_extremes # InitialExtremes

\* the positions of run() inside the disconnection handling
InOutage == {"wait", "wait_sleep"}

\* C11: in a cycle whose connectivity check fails no speed test is made and
\* no sample is appended; when the reconnection wait returns, control goes
\* straight to the duration check at the top of the loop, not to the
\* poll-interval sleep; the log, the extremes and the hourly averages are
\* left unchanged by the whole disconnection handling.
C11_OutageSkipsProbe ==
    [][ ((pc = "check" /\ pc' = "wait") \/ pc \in InOutage) =>
          /\ pc' \in InOutage \cup {"loop"}
          /\ UNCHANGED <<speeds, speed_extremes, hourly_averages,
                         download_speed, upload_speed, probe_ok>>
      ]_vars

\* an outage was handled after samples had been recorded, and the next thing
\* the program does is the duration check
C11_Witness ==
    /\ pc = "loop"
    /\ speeds # <<>>
    /\ failed_checks >= 1
    /\ Len(disconnections) = failed_checks
    /\ disconnections[Len(disconnections)].end = now
    /\ speeds[Len(speeds)].timestamp <= disconnections[Len(disconnections)].start

\* a step that finalizes the tracked hour: the rollover at the top of a cycle
\* or the call at the end of the run
FinalizeStep ==
    \/ pc = "top" /\ pc' = "check" /\ current_hour' # current_hour
    \/ pc = "final" /\ pc' = "done"

\* the samples accumulated since the tracked hour last advanced
InProgress == {i \in 1 .. Len(speeds) : i > bucket_start}

\* C12 as stated: a finalization writes the hour's entry from the in-progress
\* bucket only, so after the same hour-of-day came round a second time the
\* entry's count and means are those of the second occurrence's samples.
C12_BucketOnly ==
    [][ (FinalizeStep /\ InProgress # {}) =>
          LET a == hourly_averages'[current_hour]
          IN  /\ a.samples = Cardinality(InProgress)
              /\ IsMeanOf(a.download, Downloads(speeds), InProgress)
              /\ IsMeanOf(a.upload, Uploads(speeds), InProgress)
      ]_vars

\* C12 as amended: a finalization writes the hour's entry from all samples of
\* the log that carry that hour-of-day and leaves the other entries alone, so
\* after the same hour-of-day came round a second time the entry's count and
\* means cover the samples of both occurrences.
C12_AllSamplesOfHour ==
    [][ (FinalizeStep /\ SamplesAt(current_hour) # {}) =>
          /\ DOMAIN hourly_averages' = DOMAIN hourly_averages \cup {current_hour}
          /\ \A k \in DOMAIN hourly_averages \ {current_hour} :
               hourly_averages'[k] = hourly_averages[k]
          /\ LET a == hourly_averages'[current_hour]
             IN  /\ a.samples = Cardinality(SamplesAt(current_hour))
                 /\ IsMeanOf(a.download, Downloads(speeds), SamplesAt(current_hour))
                 /\ IsMeanOf(a.upload, Uploads(speeds), SamplesAt(current_hour))
      ]_vars

\* the tracked hour was left and came round again: its entry, written a second
\* time at the end of the run, counts the samples of both occurrences
C12_Witness ==
    /\ pc = "done"
    /\ bucket_start >= 1
    /\ InProgress # {}
    /\ speeds[1].hour = current_hour
    /\ speeds[Len(speeds)].timestamp - speeds[1].timestamp >= TicksPerHour * HoursPerDay
    /\ hourly_averages[current_hour].samples > Cardinality(InProgress)
    /\ hourly_averages[current_hour].samples = Cardinality(SamplesAt(current_hour))

\* a step in which a speed test succeeded, so update_speed_extremes ran with
\* (download_speed', upload_speed')
UpdateStep == pc = "measure" /\ pc' # "measure" /\ download_speed' # None

\* C13: the first update, made on the initial extremes, sets all four: each
\* carries the sample's speed of its direction and a timestamp.
C13_FirstUpdateSetsAll ==
    [][ (UpdateStep /\ speed_extremes = InitialExtremes) =>
          LET e == speed_extremes'
          IN  /\ e.max_download.speed = download_speed'
              /\ e.min_download.speed = download_speed'
              /\ e.max_upload.speed = upload_speed'
              /\ e.min_upload.speed = upload_speed'
              /\ e.max_download.timestamp # None
              /\ e.min_download.timestamp # None
              /\ e.max_upload.timestamp # None
              /\ e.min_upload.timestamp # None
      ]_vars

\* C14: an update whose value equals the current max or min of its direction
\* leaves that extreme, speed and timestamp, as it is.
C14_TiesDoNotReplace ==
    [][ UpdateStep =>
          /\ download_speed' = speed_extremes.max_download.speed =>
               speed_extremes'.max_download = speed_extremes.max_download
          /\ download_speed' = speed_extremes.min_download.speed =>
               speed_extremes'.min_download = speed_extremes.min_download
          /\ upload_speed' = speed_extremes.max_upload.speed =>
               speed_extremes'.max_upload = speed_extremes.max_upload
          /\ upload_speed' = speed_extremes.min_upload.speed =>
               speed_extremes'.min_upload = speed_extremes.min_upload
      ]_vars

\* the extreme value was measured a second time, later: the extremes still
\* carry the time of its first occurrence
C14_Witness ==
    /\ pc = "sleep"
    /\ Len(speeds) = 2
    /\ speeds[1].download = speeds[2].download
    /\ speeds[1].upload = speeds[2].upload
    /\ download_speed = speed_extremes.max_download.speed
    /\ download_speed = speed_extremes.min_download.speed
    /\ upload_speed = speed_extremes.max_upload.speed
    /\ speed_extremes.max_download.timestamp < now
    /\ speed_extremes.min_download.timestamp < now
    /\ speed_extremes.max_upload.timestamp < speeds[2].timestamp

\* the mean of f over the samples of hour h is <= its mean over those of hour k
HourMeanLeq(f, h, k) ==
    SumOver(f, SamplesAt(h)) * Cardinality(SamplesAt(k))
      <= SumOver(f, SamplesAt(k)) * Cardinality(SamplesAt(h))

\* h is the smallest hour-of-day among those with the largest mean of f
IsPeakHour(f, h) ==
    /\ h \in RepresentedHours
    /\ \A k \in RepresentedHours :
         /\ HourMeanLeq(f, k, h)
         /\ HourMeanLeq(f, h, k) => h <= k

\* h is the smallest hour-of-day among those with the smallest mean of f
IsLowHour(f, h) ==
    /\ h \in RepresentedHours
    /\ \A k \in RepresentedHours :
         /\ HourMeanLeq(f, h, k)
         /\ HourMeanLeq(f, k, h) => h <= k

\* C15: for a non-empty log the peak hour of a direction is the hour-of-day
\* with the largest per-hour mean and the low hour the one with the smallest;
\* among hours sharing that mean the smallest hour-of-day is returned.
C15_PeakAndLowHours ==
    (pc = "done" /\ speeds # <<>>) =>
      LET p == Report.patterns[1]
      IN  /\ IsPeakHour(Downloads(speeds), p.peak_hours.download)
          /\ IsPeakHour(Uploads(speeds), p.peak_hours.upload)
          /\ IsLowHour(Downloads(speeds), p.low_hours.download)
          /\ IsLowHour(Uploads(speeds), p.low_hours.upload)

\* two hours share the same means, the later hour-of-day being the first in
\* the log: the earlier hour-of-day is reported as peak and as low hour
C15_Witness ==
    /\ pc = "done"
    /\ Len(speeds) = 2
    /\ speeds[1].hour = 1 /\ speeds[2].hour = 0
    /\ speeds[1].download = speeds[2].download
    /\ speeds[1].upload = speeds[2].upload
    /\ Report.patterns[1].peak_hours = [download |-> 0, upload |-> 0]
    /\ Report.patterns[1].low_hours = [download |-> 0, upload |-> 0]

\* the positions of run() inside a cycle, after its duration check
InCycle == {"top", "check", "wait", "wait_sleep", "measure", "sleep"}

\* C16: the loop is left only by the duration check at the top of a cycle,
\* and only when the duration has elapsed; after that no probe is made and
\* nothing is appended before the report; a cycle that passed the check runs
\* to its end, whatever the clock shows meanwhile.
C16_OnlyExitIsDurationCheck ==
    [][ /\ (pc' = "final" /\ pc # "final") => (pc = "loop" /\ now >= end_time)
        /\ (pc = "loop" /\ pc' # "loop") =>
             pc' = (IF now >= end_time THEN "final" ELSE "top")
        /\ pc = "final" =>
             /\ pc' \in {"final", "done"}
             /\ UNCHANGED <<speeds, disconnections, speed_extremes,
                            failed_checks, probe_ok>>
        /\ pc \in InCycle => pc' \in InCycle \cup {"loop"}
      ]_vars

\* an outage that began in a cycle started in time was waited out past
\* the end of the run's duration, and recorded
C16_Witness ==
    /\ pc = "done"
    /\ disconnections # <<>>
    /\ disconnections[Len(disconnections)].start < end_time
    /\ disconnections[Len(disconnections)].end > end_time

\* C17: a sample is appended with the hour that is tracked at that moment; a
\* step that advances the tracked hour appends nothing and finalizes the hour
\* it leaves; hence the entry of every hour other than the tracked one always
\* covers all samples of that hour, also when the hour changed during a
\* reconnection wait.
C17_FinalizeBeforeNewHour ==
    [][ /\ Len(speeds') # Len(speeds) =>
             /\ speeds' = Append(speeds, speeds'[Len(speeds')])
             /\ speeds'[Len(speeds')].hour = current_hour
             /\ current_hour' = current_hour
        /\ current_hour' # current_hour =>
             /\ speeds' = speeds
             /\ SamplesAt(current_hour) # {} =>
                  /\ current_hour \in DOMAIN hourly_averages'
                  /\ hourly_averages'[current_hour].samples =
                       Cardinality(SamplesAt(current_hour))
        /\ \A h \in Hours \ {current_hour'} :
             LET S == {i \in 1 .. Len(speeds') : speeds'[i].hour = h}
             IN  S # {} => /\ h \in DOMAIN hourly_averages'
                           /\ hourly_averages'[h].samples = Cardinality(S)
      ]_vars

\* the hour changed during a reconnection wait: the hour left has its samples
\* finalized, and a sample of the new hour was appended afterwards
C17_Witness ==
    /\ disconnections # <<>>
    /\ Hour(disconnections[1].start) # Hour(disconnections[1].end)
    /\ Len(speeds) = 2
    /\ speeds[1].timestamp <= disconnections[1].start
    /\ speeds[2].timestamp >= disconnections[1].end
    /\ speeds[1].hour = Hour(disconnections[1].start)
    /\ speeds[2].hour = Hour(disconnections[1].end)
    /\ speeds[2].hour = current_hour
    /\ speeds[1].hour \in DOMAIN hourly_averages
    /\ hourly_averages[speeds[1].hour].samples = 1

\* C18: the disconnection log only grows at its end, no recorded event is
\* changed or removed, and each event ends no later than the next one starts.
C18_DisconnectionsOrdered ==
    [][ /\ Len(disconnections') >= Len(disconnections)
        /\ SubSeq(disconnections', 1, Len(disconnections)) = disconnections
        /\ \A i \in 1 .. Len(disconnections') - 1 :
             disconnections'[i].end <= disconnections'[i + 1].start
      ]_vars

\* two outages, each of some length, with working time between them
C18_Witness ==
    /\ Len(disconnections) = 2
    /\ disconnections[1].start < disconnections[1].end
    /\ disconnections[1].end < disconnections[2].start
    /\ disconnections[2].start < disconnections[2].end

\* the four extremes, as (speed, timestamp, value of a sample in that direction)
ExtremeHas(x, f, i) == x.speed = f[i] /\ x.timestamp = speeds[i].timestamp

\* C19: every extreme that is not the initial one carries the speed and the
\* timestamp of one sample of the log.
C19_ExtremeTimestampIsSamples ==
    LET e == speed_extremes
        idx == 1 .. Len(speeds)
    IN  /\ e.max_download # InitialExtremes.max_download =>
             \E i \in idx : ExtremeHas(e.max_download, Downloads(speeds), i)
        /\ e.min_download # InitialExtremes.min_download =>
             \E i \in idx : ExtremeHas(e.min_download, Downloads(speeds), i)
        /\ e.max_upload # InitialExtremes.max_upload =>
             \E i \in idx : ExtremeHas(e.max_upload, Uploads(speeds), i)
        /\ e.min_upload # InitialExtremes.min_upload =>
             \E i \in idx : ExtremeHas(e.min_upload, Uploads(speeds), i)

====
